---- MODULE Spec2Model ----
(***************************************************************************)
(* Session persistence of azor-chatdog (src/M1/azor-chatdog/src/files/     *)
(* session_files.py): the filename codec, the session store and the        *)
(* history conversion between the stored record and the universal          *)
(* conversation.                                                           *)
(*                                                                         *)
(* A string is a sequence of characters; a character is a one-element      *)
(* string ("a", "_", " ") or, for a character outside ASCII, the name of   *)
(* its code point ("U0142" is the letter l-with-stroke, "U0663" the        *)
(* Arabic-Indic digit three).  Python's None and the empty string are both *)
(* falsy where the code tests them, and both are the empty sequence here.  *)
(* LOG_DIR is one flat directory that exists; a path is the file's name.   *)
(* Also modelled: the rename command (src/commands/session_rename.py) and  *)
(* the chat session of the Claude client (src/llm/claude_client.py).       *)
(***************************************************************************)
EXTENDS Integers, Sequences, FiniteSets, TLC

\* files: LOG_DIR; clock: the time of the last save; last: the last call;
\* _history: the chat session's universal conversation (self._history);
\* seed: the history the chat session was created with; calls: the number of
\* send_message calls made on it; loop: where main_loop is and what it has
\* done with the input it read last.
VARIABLES files, clock, last, _history, seed, calls, loop

vars == <<files, clock, last, _history, seed, calls, loop>>

----------------------------------------------------------------------------
(* Characters and Python's string primitives                               *)

Digits == {"0", "1", "2", "3", "4", "5", "6", "7", "8", "9"}

UpperLetters == {"A", "B", "C", "D", "E", "F", "G", "H", "I", "J", "K", "L", "M",
                 "N", "O", "P", "Q", "R", "S", "T", "U", "V", "W", "X", "Y", "Z"}

LowerLetters == {"a", "b", "c", "d", "e", "f", "g", "h", "i", "j", "k", "l", "m",
                 "n", "o", "p", "q", "r", "s", "t", "u", "v", "w", "x", "y", "z"}

\* Letters and digits outside ASCII: str patterns of re are Unicode-aware.
NonAsciiWord == {"U0142", "U0663"}

\* re's \w on str: Unicode letters and digits, and the underscore.
IsWord(c) == c \in Digits \cup UpperLetters \cup LowerLetters \cup NonAsciiWord \cup {"_"}

\* re's \s on str, and the characters str.strip() removes.
IsSpace(c) == c \in {" ", "\t"}

\* The characters of the model in code point order.
CodeOrder ==
  <<"\t", " ", "!", "-", ".",
    "0", "1", "2", "3", "4", "5", "6", "7", "8", "9",
    "A", "B", "C", "D", "E", "F", "G", "H", "I", "J", "K", "L", "M",
    "N", "O", "P", "Q", "R", "S", "T", "U", "V", "W", "X", "Y", "Z",
    "_",
    "a", "b", "c", "d", "e", "f", "g", "h", "i", "j", "k", "l", "m",
    "n", "o", "p", "q", "r", "s", "t", "u", "v", "w", "x", "y", "z",
    "U0142", "U0663">>

Range(f) == {f[i] : i \in DOMAIN f}

Ord(c) == CHOOSE i \in 1..Len(CodeOrder) : CodeOrder[i] = c

Min(a, b) == IF a <= b THEN a ELSE b

Max(a, b) == IF a >= b THEN a ELSE b

\* s[:n]
Take(s, n) == SubSeq(s, 1, Min(Max(n, 0), Len(s)))

\* s[:-n]
DropLast(s, n) == SubSeq(s, 1, Max(Len(s) - n, 0))

\* s.endswith(suffix)
EndsWith(s, suffix) ==
  /\ Len(s) >= Len(suffix)
  /\ SubSeq(s, Len(s) - Len(suffix) + 1, Len(s)) = suffix

\* s.startswith(prefix)
StartsWith(s, prefix) ==
  /\ Len(s) >= Len(prefix)
  /\ SubSeq(s, 1, Len(prefix)) = prefix

RECURSIVE LStrip(_, _)
LStrip(s, chars) ==
  IF s # <<>> /\ Head(s) \in chars THEN LStrip(Tail(s), chars) ELSE s

RECURSIVE RStrip(_, _)
RStrip(s, chars) ==
  IF s # <<>> /\ s[Len(s)] \in chars
  THEN RStrip(SubSeq(s, 1, Len(s) - 1), chars)
  ELSE s

SpaceChars == {c \in Range(CodeOrder) : IsSpace(c)}

\* s.strip()
StripSpace(s) == RStrip(LStrip(s, SpaceChars), SpaceChars)

\* s.strip('_')
StripUnderscore(s) == RStrip(LStrip(s, {"_"}), {"_"})

\* re.sub(r'[^\w\s\-]', '', s)
KeptBySub(c) == IsWord(c) \/ IsSpace(c) \/ c = "-"

\* A substitution that removes nothing.
RemoveNothing(s) == s

RemoveInvalid(s) == SelectSeq(s, KeptBySub)

\* re.sub(r'[chars]+', '_', s): every maximal run of chars becomes one "_".
RECURSIVE SubRuns(_, _)
SubRuns(s, chars) ==
  IF s = <<>> THEN <<>>
  ELSE IF Head(s) \in chars
       THEN <<"_">> \o SubRuns(LStrip(Tail(s), chars), chars)
       ELSE <<Head(s)>> \o SubRuns(Tail(s), chars)

\* s.replace(pat, ''): every occurrence, left to right, without overlap.
RECURSIVE RemoveAll(_, _)
RemoveAll(s, pat) ==
  IF s = <<>> \/ pat = <<>> THEN s
  ELSE IF StartsWith(s, pat)
       THEN RemoveAll(SubSeq(s, Len(pat) + 1, Len(s)), pat)
       ELSE <<Head(s)>> \o RemoveAll(Tail(s), pat)

\* s.split(sep) for a one-character sep: a sequence of strings.
RECURSIVE Split(_, _)
Split(s, sep) ==
  IF \A i \in 1..Len(s) : s[i] # sep THEN <<s>>
  ELSE LET i == CHOOSE k \in 1..Len(s) :
                  s[k] = sep /\ \A j \in 1..(k - 1) : s[j] # sep
       IN  <<SubSeq(s, 1, i - 1)>> \o Split(SubSeq(s, i + 1, Len(s)), sep)

\* sep.join(parts)
RECURSIVE Join(_, _)
Join(parts, sep) ==
  IF parts = <<>> THEN <<>>
  ELSE IF Len(parts) = 1 THEN parts[1]
       ELSE parts[1] \o <<sep>> \o Join(Tail(parts), sep)

\* a < b as Python compares str: by code point, a proper prefix first.
RECURSIVE StrLess(_, _)
StrLess(a, b) ==
  IF b = <<>> THEN FALSE
  ELSE IF a = <<>> THEN TRUE
       ELSE IF Head(a) = Head(b) THEN StrLess(Tail(a), Tail(b))
            ELSE Ord(Head(a)) < Ord(Head(b))

\* sorted(names): the names of a set in increasing order.
RECURSIVE SortedNames(_)
SortedNames(S) ==
  IF S = {} THEN <<>>
  ELSE LET m == CHOOSE x \in S : \A y \in S \ {x} : StrLess(x, y)
       IN  <<m>> \o SortedNames(S \ {m})

----------------------------------------------------------------------------
(* Filename codec                                                          *)

JsonExt == <<".", "j", "s", "o", "n">>

LogJson == <<"-", "l", "o", "g", ".", "j", "s", "o", "n">>

DefaultName == <<"c", "o", "n", "v", "e", "r", "s", "a", "t", "i", "o", "n">>

\* max_length's default in generate_friendly_filename; new_name[:50] in rename.
MaxNameLength == 50

ShortIdLength == 8

\* session_id[:8]
ShortId(session_id) == Take(session_id, ShortIdLength)

\* The five steps without the last one, strip('_').
SanitizeUnstripped(raw, max_length) ==
  LET cut    == StripSpace(Take(raw, max_length))
      valid  == RemoveInvalid(cut)
      spaced == SubRuns(valid, SpaceChars)
  IN  SubRuns(spaced, {"_"})

\* Lines 21-32 of generate_friendly_filename and 309-313 of rename_session_file:
\* the same five steps.
SanitizeRaw(raw, max_length) ==
  LET cut       == StripSpace(Take(raw, max_length))
      valid     == RemoveInvalid(cut)
      spaced    == SubRuns(valid, SpaceChars)
      collapsed == SubRuns(spaced, {"_"})
  IN  StripUnderscore(collapsed)

\* A sanitized_name that falls back to the default name, as the prompt part does.
SanitizeOrDefault(new_name) ==
  IF SanitizeRaw(new_name, MaxNameLength) = <<>> THEN DefaultName
  ELSE SanitizeRaw(new_name, MaxNameLength)

\* rename_session_file's sanitized_name.
SanitizeNewName(new_name) == SanitizeRaw(new_name, MaxNameLength)

\* generate_friendly_filename's prompt_part, the default included.
PromptPart(first_prompt, max_length) ==
  LET p == SanitizeRaw(first_prompt, max_length)
  IN  IF p = <<>> THEN DefaultName ELSE p

\* A friendly filename built from the prompt as it is.
friendly_filename_unsanitized(first_prompt, session_id) ==
  Take(first_prompt, MaxNameLength) \o <<"_">> \o ShortId(session_id)

generate_friendly_filename(first_prompt, session_id) ==
  PromptPart(first_prompt, MaxNameLength) \o <<"_">> \o ShortId(session_id)

----------------------------------------------------------------------------
(* Storage: LOG_DIR as a function from file names to file contents         *)

\* find_session_file's None.
NoFile == <<>>

NoHistory == <<>>

\* A file json.dump wrote completely: the record log_data.
Record(session_id, model_name, system_prompt, json_history) ==
  [kind |-> "record", session_id |-> session_id, model |-> model_name,
   system_role |-> system_prompt, history |-> json_history]

\* A file that open(..., 'w') truncated and json.dump did not finish: a proper
\* prefix of a JSON object, which json.load rejects with JSONDecodeError.
Truncated ==
  [kind |-> "truncated", session_id |-> <<>>, model |-> "", system_role |-> "",
   history |-> <<>>]

\* A file holding JSON that is no object: the text "[]".
NotAnObject ==
  [kind |-> "not_object", session_id |-> <<>>, model |-> "", system_role |-> "",
   history |-> <<>>]

\* A file holding an object whose one history entry has neither text nor
\* timestamp, and no session_id: the text {"history": [{"role": "user"}]}.
TurnWithoutText ==
  [kind |-> "no_text", session_id |-> <<>>, model |-> "", system_role |-> "",
   history |-> <<[role |-> "user"]>>]

\* Contents that json.dump of save never writes and that other writers of
\* LOG_DIR can leave in a session file.
ForeignContents == {NotAnObject, TurnWithoutText}

EmptyDir == [f \in {} |-> Truncated]

\* The directory after name is written with content.
WriteFile(fs, name, content) ==
  [f \in DOMAIN fs \cup {name} |-> IF f = name THEN content ELSE fs[f]]

\* An os.remove that leaves the file in place.
RemoveLeavesFile(fs, name) == fs

\* A removal that empties the file and leaves its name in place.
RemoveTruncates(fs, name) == [fs EXCEPT ![name] = Truncated]

\* os.remove(name)
RemoveFile(fs, name) == [f \in DOMAIN fs \ {name} |-> fs[f]]

\* A rename that leaves the old name in place beside the new one.
RenameKeepsOld(fs, old, new) ==
  [f \in DOMAIN fs \cup {new} |-> IF f = new THEN fs[old] ELSE fs[f]]

\* os.rename(old, new): new replaces old; a rename onto itself changes nothing.
RenameFile(fs, old, new) ==
  [f \in (DOMAIN fs \ {old}) \cup {new} |-> IF f = new THEN fs[old] ELSE fs[f]]

\* f"{session_id}-log.json"
LegacyName(session_id) == session_id \o LogJson

\* f"_{short_id}.json"
ShortIdSuffix(short_id) == <<"_">> \o short_id \o JsonExt

\* The values find_session_file may return: the legacy path when it exists,
\* else the first name in os.listdir's order that ends in _<short_id>.json, an
\* order the code does not control, else None.
\* A lookup that knows the legacy name only.
find_session_file_legacy_only(fs, session_id) ==
  IF LegacyName(session_id) \in DOMAIN fs
  THEN {LegacyName(session_id)}
  ELSE {NoFile}

\* A scan that takes any current-format file, whatever its short id.
find_session_file_any_suffix(fs, session_id) ==
  IF LegacyName(session_id) \in DOMAIN fs
  THEN {LegacyName(session_id)}
  ELSE LET matches == {f \in DOMAIN fs : ~EndsWith(f, LogJson)}
       IN  IF matches = {} THEN {NoFile} ELSE matches

find_session_file(fs, session_id) ==
  IF LegacyName(session_id) \in DOMAIN fs
  THEN {LegacyName(session_id)}
  ELSE LET matches == {f \in DOMAIN fs :
                         EndsWith(f, ShortIdSuffix(ShortId(session_id)))}
       IN  IF matches = {} THEN {NoFile} ELSE matches

----------------------------------------------------------------------------
(* History conversion                                                      *)

\* A turn of the universal conversation: {"role": r, "parts": [{"text": t}]}.
Turn(role, text) == [role |-> role, parts |-> <<[text |-> text]>>]

\* save's text_part of a dict entry: parts[0]'s text, "" without parts.
TextPart(content) ==
  IF content.parts # <<>> THEN content.parts[1].text ELSE <<>>

\* A json_history stamped with the time before this save.
RECURSIVE json_history_stale(_, _)
json_history_stale(history, now) ==
  IF history = <<>> THEN <<>>
  ELSE LET content == Head(history)
           rest    == json_history_stale(Tail(history), now)
       IN  IF TextPart(content) # <<>>
           THEN <<[role |-> content.role, timestamp |-> now - 1,
                   text |-> TextPart(content)]>> \o rest
           ELSE rest

\* save's json_history: the turns with a non-empty text, stamped now.
RECURSIVE json_history(_, _)
json_history(history, now) ==
  IF history = <<>> THEN <<>>
  ELSE LET content == Head(history)
           rest    == json_history(Tail(history), now)
       IN  IF TextPart(content) # <<>>
           THEN <<[role |-> content.role, timestamp |-> now,
                   text |-> TextPart(content)]>> \o rest
           ELSE rest

\* A load that gives every entry the user role.
universal_history_one_role(entries) ==
  [i \in 1..Len(entries) |->
     [role |-> "user", parts |-> <<[text |-> entries[i].text]>>]]

\* load's history: every stored entry as {"role", "parts": [{"text"}]}.
universal_history(entries) ==
  [i \in 1..Len(entries) |->
     [role |-> entries[i].role, parts |-> <<[text |-> entries[i].text]>>]]

\* A first_user_message that goes on past a user entry without text.
RECURSIVE first_user_text_anywhere(_)
first_user_text_anywhere(history) ==
  IF history = <<>> THEN <<>>
  ELSE IF Head(history).role = "user" /\ TextPart(Head(history)) # <<>>
       THEN TextPart(Head(history))
       ELSE first_user_text_anywhere(Tail(history))

\* save's first_user_message: the text of the first entry whose role is user,
\* None (empty) when there is none.
RECURSIVE first_user_message(_)
first_user_message(history) ==
  IF history = <<>> THEN <<>>
  ELSE IF Head(history).role = "user" THEN TextPart(Head(history))
       ELSE first_user_message(Tail(history))

\* A log_filename that names the file after the history whatever exists.
log_filename_derived(session_id, history, existing_file) ==
  IF first_user_message(history) # <<>>
  THEN generate_friendly_filename(first_user_message(history), session_id)
         \o JsonExt
  ELSE LegacyName(session_id)

\* save's log_filename, given what find_session_file returned.
log_filename(session_id, history, existing_file) ==
  IF existing_file = NoFile
  THEN IF first_user_message(history) # <<>>
       THEN generate_friendly_filename(first_user_message(history), session_id)
              \o JsonExt
       ELSE LegacyName(session_id)
  ELSE existing_file

----------------------------------------------------------------------------
(* What the last call was given, what it found and what it returned        *)

\* op: the function called; existing: what its find_session_file returned;
\* path: the file it went on to write, read, rename to or remove; ok, error:
\* the (success, error) it returned, error "None" for None; value: the history,
\* path, name or listing it returned.
Outcome(op, session_id, history, new_name, existing, path, ok, error, value) ==
  [op |-> op, session_id |-> session_id, history |-> history,
   new_name |-> new_name, existing |-> existing, path |-> path,
   ok |-> ok, error |-> error, value |-> value]

\* main_loop is not running.
NoLoop ==
  [pc |-> "off", user_input |-> <<>>, sent |-> 0, saved |-> 0, ended |-> "no"]

NoCall == Outcome("none", <<>>, <<>>, <<>>, <<>>, <<>>, TRUE, "None", <<>>)

\* The program is single-threaded and every call is synchronous: the caller
\* holds the result of one call before it makes the next.
Idle == last = NoCall

Return ==
  /\ last # NoCall
  /\ last' = NoCall
  /\ UNCHANGED <<files, clock, _history, seed, calls, loop>>

----------------------------------------------------------------------------
(* Inputs                                                                  *)

\* Writing saves the model follows: the clock stops there.
MaxClock == 2

\* Longest in-memory history handed to save.
MaxTurns == 2

IdA == <<"a", "b", "c", "d", "e", "f", "1", "2", "-", "1">>

\* Shares its first 8 characters with IdA.
IdB == <<"a", "b", "c", "d", "e", "f", "1", "2", "-", "2">>

IdC == <<"x", "y", "z", "1", "2", "3", "a", "b", "-", "3">>

SessionIds == {IdA, IdB, IdC}

HelloWorld == <<"H", "e", "l", "l", "o", " ", "w", "o", "r", "l", "d">>

HiBang == <<"H", "i", "!">>

\* A message that sanitizes to nothing.
Bang == <<"!">>

Texts == {<<>>, HelloWorld, HiBang, Bang}

\* Entries of a universal conversation: a user turn with any of the texts, a
\* model turn with no text or with HiBang, and a user entry without parts.
Turns == {Turn("user", t) : t \in Texts}
           \cup {Turn("model", <<>>), Turn("model", HiBang)}
           \cup {[role |-> "user", parts |-> <<>>]}

RECURSIVE SeqsUpTo(_, _)
SeqsUpTo(S, n) ==
  IF n = 0 THEN {<<>>}
  ELSE LET shorter == SeqsUpTo(S, n - 1)
       IN  shorter \cup {Append(h, x) : h \in {q \in shorter : Len(q) = n - 1}, x \in S}

Histories == SeqsUpTo(Turns, MaxTurns)

SystemPrompt == "system-prompt"

ModelName == "model-name"

\* Names asked of rename: one that sanitizes to Hi, the name save derives from
\* HiBang, one that sanitizes to nothing, a blank one and the empty one.
NewNames == {HiBang, <<"!", "!">>, <<" ">>, <<>>}

----------------------------------------------------------------------------
(* Session store operations                                                *)

\* The early return taken only by the empty history.
incomplete_only_empty(history) == Len(history) < 1

\* save's condition of the early return.
incomplete(history) == Len(history) < 2

\* save_session_history(session_id, history, SystemPrompt, ModelName) with
\* fewer than 2 entries: the early return.
SaveShort(session_id, history) ==
  /\ incomplete(history)
  /\ last' = Outcome("save", session_id, history, <<>>, NoFile, NoFile,
                     TRUE, "None", <<>>)
  /\ UNCHANGED <<files, clock>>

\* save_session_history with 2 entries or more. io is what the file system
\* does: "ok"; "open_error", open(..., 'w') raises and the directory is as it
\* was; "write_error", json.dump raises after open truncated the file.
SaveWrite(session_id, history, existing_file, io) ==
  /\ ~incomplete(history)
  /\ clock < MaxClock
  /\ existing_file \in find_session_file(files, session_id)
  /\ LET path == log_filename(session_id, history, existing_file)
         now  == clock + 1
         data == Record(session_id, ModelName, SystemPrompt,
                        json_history(history, now))
     IN  /\ clock' = now
         /\ files' = CASE io = "ok"          -> WriteFile(files, path, data)
                       [] io = "write_error" -> WriteFile(files, path, Truncated)
                       [] OTHER              -> files
         /\ last' = Outcome("save", session_id, history, <<>>, existing_file,
                            path, io = "ok",
                            IF io = "ok" THEN "None" ELSE "write_failed", <<>>)

\* save_session_history left by Ctrl+C, which except Exception (line 201) does
\* not catch; at says where: "before_open", LOG_DIR is as it was; "writing",
\* json.dump was writing into the file open(..., 'w') had emptied; "written",
\* the record was complete. Nothing is returned to the caller.
SaveInterrupted(session_id, history, existing_file, at) ==
  /\ ~incomplete(history)
  /\ clock < MaxClock
  /\ existing_file \in find_session_file(files, session_id)
  /\ LET path == log_filename(session_id, history, existing_file)
         now  == clock + 1
         data == Record(session_id, ModelName, SystemPrompt,
                        json_history(history, now))
     IN  /\ clock' = now
         /\ files' = CASE at = "written" -> WriteFile(files, path, data)
                       [] at = "writing" -> WriteFile(files, path, Truncated)
                       [] OTHER          -> files
         /\ last' = last

save_session_history ==
  /\ Idle
  /\ UNCHANGED <<_history, seed, calls, loop>>
  /\ \E session_id \in SessionIds, history \in Histories :
       \/ SaveShort(session_id, history)
       \/ \E existing_file \in find_session_file(files, session_id),
             io \in {"ok", "open_error", "write_error"} :
            SaveWrite(session_id, history, existing_file, io)

\* find_session_file(session_id), called on its own.
FindCall ==
  /\ Idle
  /\ \E session_id \in SessionIds :
    \E found \in find_session_file(files, session_id) :
      /\ last' = Outcome("find", session_id, <<>>, <<>>, found, found,
                         TRUE, "None", found)
      /\ UNCHANGED <<files, clock, _history, seed, calls, loop>>

\* remove_session_file(session_id); os_error: os.remove raises OSError.
remove_session_file ==
  /\ Idle
  /\ \E session_id \in SessionIds, os_error \in BOOLEAN :
    \E found \in find_session_file(files, session_id) :
      /\ IF found = NoFile
         THEN /\ os_error = FALSE
              /\ last' = Outcome("remove", session_id, <<>>, <<>>, found, found,
                                 FALSE, "not_found", <<>>)
              /\ files' = files
         ELSE IF os_error
         THEN /\ last' = Outcome("remove", session_id, <<>>, <<>>, found, found,
                                 FALSE, "remove_failed", <<>>)
              /\ files' = files
         ELSE /\ last' = Outcome("remove", session_id, <<>>, <<>>, found, found,
                                 TRUE, "None", <<>>)
              /\ files' = RemoveFile(files, found)
      /\ UNCHANGED <<clock, _history, seed, calls, loop>>

\* rename_session_file's new_filename.
new_filename(sanitized_name, session_id) ==
  sanitized_name \o ShortIdSuffix(ShortId(session_id))

\* The check that never finds the target taken.
target_never_taken(fs, new_filepath, old_filepath) == FALSE

\* rename_session_file's check that the target exists and is another file.
target_taken(fs, new_filepath, old_filepath) ==
  new_filepath \in DOMAIN fs /\ new_filepath # old_filepath

\* rename_session_file(session_id, new_name) once find_session_file returned
\* old_filepath; os_error: os.rename raises. The directory afterwards, the
\* target path once it is computed, and the (success, error, sanitized_name)
\* returned.
rename_result(fs, session_id, new_name, old_filepath, os_error) ==
  LET sanitized_name == SanitizeNewName(new_name)
      new_filepath   == new_filename(sanitized_name, session_id)
      Returns(dir, path, ok, error, value) ==
        [files |-> dir, path |-> path, ok |-> ok, error |-> error,
         value |-> value]
  IN  IF old_filepath = NoFile
      THEN Returns(fs, NoFile, FALSE, "not_found", <<>>)
      ELSE IF sanitized_name = <<>>
      THEN Returns(fs, NoFile, FALSE, "empty_name", <<>>)
      ELSE IF target_taken(fs, new_filepath, old_filepath)
      THEN Returns(fs, new_filepath, FALSE, "exists", <<>>)
      ELSE IF os_error
      THEN Returns(fs, new_filepath, FALSE, "rename_failed", <<>>)
      ELSE Returns(RenameFile(fs, old_filepath, new_filepath), new_filepath,
                   TRUE, "None", sanitized_name)

\* rename_session_file(session_id, new_name), called on its own.
rename_session_file ==
  /\ Idle
  /\ \E session_id \in SessionIds, new_name \in NewNames, os_error \in BOOLEAN :
    \E old_filepath \in find_session_file(files, session_id) :
      LET r == rename_result(files, session_id, new_name, old_filepath, os_error)
      IN  /\ last' = Outcome("rename", session_id, <<>>, new_name, old_filepath,
                             r.path, r.ok, r.error, r.value)
          /\ files' = r.files
          /\ UNCHANGED <<clock, _history, seed, calls, loop>>

\* load_session_history's (history, error) once find_session_file returned
\* found: not found, JSONDecodeError, or the history converted. Only
\* JSONDecodeError is caught: log_data.get on a list raises AttributeError and
\* entry['text'] on an entry without text raises KeyError, and then error
\* names the exception that reaches the caller in place of a result.
\* Files opened with mode 'w', which empties them.
OpenForWriting(fs, names) ==
  [f \in DOMAIN fs |-> IF f \in names THEN Truncated ELSE fs[f]]

\* open(path, 'r') of each of the files: LOG_DIR as it is afterwards.
OpenForReading(fs, names) == fs

load_result(fs, found) ==
  IF found = NoFile
  THEN [ok |-> FALSE, error |-> "not_found", value |-> NoHistory]
  ELSE CASE fs[found].kind = "record" ->
              [ok |-> TRUE, error |-> "None",
               value |-> universal_history(fs[found].history)]
         [] fs[found].kind = "truncated" ->
              [ok |-> FALSE, error |-> "decode_error", value |-> NoHistory]
         [] fs[found].kind = "not_object" ->
              [ok |-> FALSE, error |-> "AttributeError", value |-> NoHistory]
         [] fs[found].kind = "no_text" ->
              [ok |-> FALSE, error |-> "KeyError", value |-> NoHistory]

\* load_session_history(session_id): (history, error).
load_session_history ==
  /\ Idle
  /\ \E session_id \in SessionIds :
       \E found \in find_session_file(files, session_id) :
         /\ last' = LET r == load_result(files, found)
                    IN  Outcome("load", session_id, <<>>, <<>>, found, found,
                                r.ok, r.error, r.value)
         /\ files' = OpenForReading(files, {found} \ {NoFile})
         /\ UNCHANGED <<clock, _history, seed, calls, loop>>

\* A display name cut at the first underscore of the file name.
display_name_first_part(session_file, session_id) ==
  IF session_file = NoFile THEN ShortId(session_id)
  ELSE IF EndsWith(session_file, LogJson) THEN ShortId(session_id)
  ELSE Split(DropLast(session_file, Len(JsonExt)), "_")[1]

\* get_session_display_name after find_session_file returned session_file.
display_name(session_file, session_id) ==
  IF session_file = NoFile THEN ShortId(session_id)
  ELSE IF EndsWith(session_file, LogJson) THEN ShortId(session_id)
  ELSE LET base_name == DropLast(session_file, Len(JsonExt))
           parts     == Split(base_name, "_")
       IN  IF \E i \in 1..Len(base_name) : base_name[i] = "_"
           THEN Join(DropLast(parts, 1), "_")
           ELSE ShortId(session_id)

get_session_display_name ==
  /\ Idle
  /\ \E session_id \in SessionIds :
       \E found \in find_session_file(files, session_id) :
         /\ last' = Outcome("display", session_id, <<>>, <<>>, found, found,
                            TRUE, "None", display_name(found, session_id))
         /\ UNCHANGED <<files, clock, _history, seed, calls, loop>>

AzorWal == <<"a", "z", "o", "r", "-", "w", "a", "l", ".", "j", "s", "o", "n">>

Unknown == <<"u", "n", "k", "n", "o", "w", "n">>

\* A has_new_format that never finds a newer file.
has_no_new_format(fs, f) == FALSE

\* list_sessions' has_new_format for the legacy file f.
has_new_format(fs, f) ==
  LET session_id == RemoveAll(f, LogJson)
      short_id   == ShortId(session_id)
  IN  \E fn \in DOMAIN fs :
        EndsWith(fn, ShortIdSuffix(short_id)) /\ ~EndsWith(fn, LogJson)

\* list_sessions' session_files: (filename, old_session_id, friendly_name),
\* None as the empty string.
session_files(fs) ==
  LET legacy == {f \in DOMAIN fs :
                   /\ EndsWith(f, JsonExt) /\ f # AzorWal
                   /\ EndsWith(f, LogJson)
                   /\ ~has_new_format(fs, f)}
      named  == {f \in DOMAIN fs :
                   /\ EndsWith(f, JsonExt) /\ f # AzorWal
                   /\ ~EndsWith(f, LogJson)
                   /\ \E i \in 1..(Len(f) - Len(JsonExt)) : f[i] = "_"}
  IN  {[filename |-> f, old_session_id |-> RemoveAll(f, LogJson),
        friendly_name |-> <<>>] : f \in legacy}
      \cup
      {[filename |-> f, old_session_id |-> <<>>,
        friendly_name |->
          Join(DropLast(Split(DropLast(f, Len(JsonExt)), "_"), 1), "_")] :
        f \in named}

\* list_sessions' entry of one of session_files. A file that is no JSON, one
\* that is no object (log_data.get raises AttributeError) and a record whose
\* history is empty (history[-1] raises IndexError) take the except branch. An
\* object without session_id is listed under the id of its file name, and a
\* last entry without timestamp gives 'Brak aktywnosci', here the time 0 that
\* no save stamps. The model's clock is no finer than a minute, so strftime to
\* the minute keeps the timestamp.
session_entry(fs, t) ==
  LET log_data == fs[t.filename]
  IN  IF log_data.kind = "record" /\ log_data.history # <<>>
      THEN [id |-> log_data.session_id,
            display_name |-> IF t.friendly_name # <<>> THEN t.friendly_name
                             ELSE ShortId(log_data.session_id),
            messages_count |-> Len(log_data.history),
            last_activity |-> log_data.history[Len(log_data.history)].timestamp,
            error |-> "None"]
      ELSE IF log_data.kind = "no_text"
      THEN LET session_id == IF t.old_session_id # <<>> THEN t.old_session_id
                             ELSE Unknown
           IN  [id |-> session_id,
                display_name |-> IF t.friendly_name # <<>> THEN t.friendly_name
                                 ELSE ShortId(session_id),
                messages_count |-> Len(log_data.history),
                last_activity |-> 0,
                error |-> "None"]
      ELSE [id |-> IF t.old_session_id # <<>> THEN t.old_session_id ELSE Unknown,
            display_name |-> IF t.friendly_name # <<>> THEN t.friendly_name
                             ELSE IF t.old_session_id # <<>>
                                  THEN ShortId(t.old_session_id)
                                  ELSE t.filename,
            error |-> "read_error"]

\* The file names list_sessions goes through, sorted.
listed_files(fs) == SortedNames({t.filename : t \in session_files(fs)})

\* A listing that ends at the first file it cannot read.
RECURSIVE readable_prefix(_, _)
readable_prefix(fs, names) ==
  IF names = <<>> THEN <<>>
  ELSE LET t == CHOOSE x \in session_files(fs) : x.filename = Head(names)
       IN  IF session_entry(fs, t).error # "None" THEN <<>>
           ELSE <<session_entry(fs, t)>> \o readable_prefix(fs, Tail(names))

sessions_data_until_error(fs) == readable_prefix(fs, listed_files(fs))

\* list_sessions(): sessions_data, one entry per listed file, in that order.
sessions_data(fs) ==
  LET names == listed_files(fs)
  IN  [i \in 1..Len(names) |->
         session_entry(fs, CHOOSE t \in session_files(fs) : t.filename = names[i])]

\* list_sessions(); path holds the names of the files the entries were built
\* from, in the entries' order.
list_sessions ==
  /\ Idle
  /\ last' = Outcome("list", <<>>, <<>>, <<>>, <<>>, listed_files(files),
                     TRUE, "None", sessions_data(files))
  /\ files' = OpenForReading(files, {t.filename : t \in session_files(files)})
  /\ UNCHANGED <<clock, _history, seed, calls, loop>>

\* Names given to the rename command: a full id, a short id, a display name.
CommandArgs == {IdA, ShortId(IdA), <<"H", "i">>}

\* rename_session_command's test of new_name: empty, or white space only.
blank(new_name) == new_name = <<>> \/ StripSpace(new_name) = <<>>

\* rename_session_command's target_session_id: the id of the first listed
\* session whose id is session_id or starts with it, or whose display name is
\* session_id; None without one.
RECURSIVE target_session_id(_, _)
target_session_id(sessions, session_id) ==
  IF sessions = <<>> THEN <<>>
  ELSE LET session == Head(sessions)
       IN  IF \/ session.id = session_id
              \/ StartsWith(session.id, session_id)
              \/ session.display_name = session_id
           THEN session.id
           ELSE target_session_id(Tail(sessions), session_id)

\* rename_session_command(session_id, new_name): the blank name is refused
\* before anything is read; then the session is looked up in list_sessions()
\* and rename_session_file renames the file of the id found.
rename_session_command ==
  /\ Idle
  /\ LET sessions == sessions_data(files)
     IN  \E session_id \in CommandArgs :
           LET target == target_session_id(sessions, session_id)
           IN  \E new_name \in NewNames :
                 LET Reports(existing, path, ok, error, value) ==
                       last' = Outcome("rename_command", session_id, <<>>,
                                       new_name, existing, path, ok, error, value)
                 IN  IF blank(new_name)
                     THEN /\ Reports(NoFile, NoFile, FALSE, "blank_name", <<>>)
                          /\ files' = files
                     ELSE IF target = <<>>
                     THEN /\ Reports(NoFile, NoFile, FALSE, "session_not_found",
                                    <<>>)
                          /\ files' = files
                     ELSE \E old_filepath \in find_session_file(files, target),
                             os_error \in BOOLEAN :
                            LET r == rename_result(files, target, new_name,
                                                   old_filepath, os_error)
                            IN  /\ Reports(old_filepath, r.path, r.ok, r.error,
                                          r.value)
                                /\ files' = r.files
  /\ UNCHANGED <<clock, _history, seed, calls, loop>>

\* Another writer of LOG_DIR replaces the content of a session file.
ForeignWrite ==
  /\ Idle
  /\ \E f \in DOMAIN files, content \in ForeignContents :
       /\ files[f] # content
       /\ files' = [files EXCEPT ![f] = content]
  /\ UNCHANGED <<clock, last, _history, seed, calls, loop>>

Init ==
  /\ files = EmptyDir
  /\ clock = 0
  /\ _history = <<>>
  /\ seed = <<>>
  /\ calls = 0
  /\ loop = NoLoop
  /\ last = NoCall

Next ==
  \/ save_session_history
  \/ FindCall
  \/ remove_session_file
  \/ rename_session_file
  \/ rename_session_command
  \/ load_session_history
  \/ get_session_display_name
  \/ list_sessions
  \/ ForeignWrite
  \/ Return

Spec == Init /\ [][Next]_vars

\* The session store used for sessions whose short ids are pairwise
\* distinct: no call is made for the second session of a shared short id.
DistinctIds == {IdA, IdC}

\* The call made in this step is for one of these sessions.
ForDistinct == last'.session_id # IdB

DistinctNext ==
  \/ save_session_history /\ ForDistinct
  \/ FindCall /\ ForDistinct
  \/ remove_session_file /\ ForDistinct
  \/ rename_session_file /\ ForDistinct
  \/ rename_session_command /\ ForDistinct
  \/ load_session_history /\ ForDistinct
  \/ get_session_display_name /\ ForDistinct
  \/ list_sessions
  \/ ForeignWrite
  \/ Return

DistinctSpec == Init /\ [][DistinctNext]_vars

----------------------------------------------------------------------------
(* The sanitizer on its own: an input string, then the two places that     *)
(* sanitize it                                                             *)

\* Longest input enumerated in full.
MaxRawLen == 3

\* Longest tail put after a run that reaches the length cap.
MaxTailLen == 2

RawChars == {"a", "7", "_", "-", " ", "\t", "!", "U0142"}

\* n times the character c.
Repeat(c, n) == [i \in 1..n |-> c]

\* Every string of RawChars up to MaxRawLen, and runs of a letter, a space or
\* an underscore that end just before, at and just after the cap of
\* MaxNameLength characters, followed by a short tail.
RawNames ==
  SeqsUpTo(RawChars, MaxRawLen)
    \cup {Repeat(c, n) \o tail :
            c \in {"a", " ", "_"},
            n \in (MaxNameLength - 2)..(MaxNameLength + 1),
            tail \in SeqsUpTo(RawChars, MaxTailLen)}

SanitizeInit ==
  /\ files = EmptyDir
  /\ clock = 0
  /\ _history = <<>>
  /\ seed = <<>>
  /\ calls = 0
  /\ loop = NoLoop
  /\ \E raw \in RawNames :
       last = Outcome("raw", IdA, <<>>, raw, <<>>, <<>>, TRUE, "None", <<>>)

\* generate_friendly_filename(raw, session_id): value is the prompt part,
\* path the file name save builds from it.
FriendlyCall ==
  /\ last.op = "raw"
  /\ last' = Outcome("friendly", last.session_id, <<>>, last.new_name, <<>>,
                     generate_friendly_filename(last.new_name, last.session_id)
                       \o JsonExt,
                     TRUE, "None", PromptPart(last.new_name, MaxNameLength))
  /\ UNCHANGED <<files, clock, _history, seed, calls, loop>>

\* rename_session_file's sanitized_name of raw.
SanitizeCall ==
  /\ last.op = "raw"
  /\ last' = Outcome("sanitize", last.session_id, <<>>, last.new_name, <<>>,
                     <<>>, TRUE, "None", SanitizeNewName(last.new_name))
  /\ UNCHANGED <<files, clock, _history, seed, calls, loop>>

SanitizeNext == FriendlyCall \/ SanitizeCall

SanitizeSpec == SanitizeInit /\ [][SanitizeNext]_vars

----------------------------------------------------------------------------
(* The history conversion on its own: (role, text) turns, save's stored    *)
(* turns, load's universal conversation                                    *)

\* Longest sequence of (role, text) turns converted.
MaxPairs == 3

PairTexts == {<<>>, HiBang, Bang}

Pairs == {Turn(r, t) : r \in {"user", "model", "system"}, t \in PairTexts}

RoundTripInit ==
  /\ files = EmptyDir
  /\ clock = 0
  /\ _history = <<>>
  /\ seed = <<>>
  /\ calls = 0
  /\ loop = NoLoop
  /\ \E turns \in SeqsUpTo(Pairs, MaxPairs) :
       last = Outcome("turns", <<>>, turns, <<>>, <<>>, <<>>, TRUE, "None", <<>>)

\* save's loop over history.
ToStored ==
  /\ last.op = "turns"
  /\ clock' = clock + 1
  /\ last' = Outcome("stored", <<>>, last.history, <<>>, <<>>, <<>>, TRUE,
                     "None", json_history(last.history, clock'))
  /\ UNCHANGED <<files, _history, seed, calls, loop>>

\* load's loop over the stored history.
ToUniversal ==
  /\ last.op = "stored"
  /\ last' = Outcome("universal", <<>>, last.history, <<>>, <<>>, <<>>, TRUE,
                     "None", universal_history(last.value))
  /\ UNCHANGED <<files, clock, _history, seed, calls, loop>>

RoundTripNext == ToStored \/ ToUniversal

RoundTripSpec == RoundTripInit /\ [][RoundTripNext]_vars

----------------------------------------------------------------------------
(* The chat session of the Claude client (src/llm/claude_client.py):       *)
(* send_message on the universal conversation self._history                *)

\* Longest conversation a send_message is followed to.
MaxHistoryLen == 5

\* Most content blocks in a response of the provider.
MaxBlocks == 2

\* Most calls of send_message on one session.
MaxCalls == 3

\* "Przepraszam, wystapil blad podczas generowania odpowiedzi Claude.", with
\* its five letters outside ASCII.
err_text ==
  <<"P", "r", "z", "e", "p", "r", "a", "s", "z", "a", "m", ",", " ", "w",
    "y", "s", "t", "U0105", "p", "i", "U0142", " ", "b", "U0142", "U0105",
    "d", " ", "p", "o", "d", "c", "z", "a", "s", " ", "g", "e", "n", "e",
    "r", "o", "w", "a", "n", "i", "a", " ", "o", "d", "p", "o", "w", "i",
    "e", "d", "z", "i", " ", "C", "l", "a", "u", "d", "e", ".">>

\* A content block of a response: one with a text attribute, one without.
Blocks == {[has_text |-> TRUE, text |-> HiBang],
           [has_text |-> TRUE, text |-> <<>>],
           [has_text |-> FALSE, text |-> <<>>]}

\* What the provider does with a call: the client has no messages.create;
\* messages.create raises an Exception; it returns a response with these
\* content blocks.
Providers ==
  {[kind |-> "no_messages_api", content |-> <<>>],
   [kind |-> "raises", content |-> <<>>]}
    \cup {[kind |-> "response", content |-> c] : c \in SeqsUpTo(Blocks, MaxBlocks)}

\* The texts of the blocks that have one, concatenated.
RECURSIVE text_out(_)
text_out(content) ==
  IF content = <<>> THEN <<>>
  ELSE (IF Head(content).has_text THEN Head(content).text ELSE <<>>)
         \o text_out(Tail(content))

\* Building messages reads parts[0] of every entry: IndexError for an entry
\* whose parts is the empty list.
messages_raise(history) == \E i \in 1..Len(history) : history[i].parts = <<>>

\* A send_message that never takes the except branch.
answered_always(history, provider) == TRUE

\* send_message reaches the return of line 83: messages were built, the
\* client has messages.create, it returned, and the content is not empty.
answered(history, provider) ==
  /\ ~messages_raise(history)
  /\ provider.kind = "response"
  /\ provider.content # <<>>

\* The text send_message returns and appends as the model turn.
reply(history, provider) ==
  IF answered(history, provider) THEN text_out(provider.content) ELSE err_text

\* What the caller of send_message holds afterwards: the text sent, what the
\* provider did, when Ctrl+C arrived, the conversation before the call, whether
\* an exception reached the caller, the console's error lines, and
\* response.text.
Sent(text, provider, signal, before, raised, error, value) ==
  [op |-> "send", text |-> text, provider |-> provider, signal |-> signal,
   before |-> before, raised |-> raised, error |-> error, value |-> value]

SentTexts == {HiBang, <<>>}

\* The entries create_chat_session keeps of a given history: dicts with role
\* and parts.
SeedTurns == {Turn("user", HiBang), Turn("model", HiBang),
              [role |-> "user", parts |-> <<>>]}

\* Line 39: the user message appended to the universal history.
with_user_turn(history, text) == Append(history, Turn("user", text))

\* A history that takes a model turn only when it has a text.
with_model_turn_if_text(history, text) ==
  IF text = <<>> THEN history ELSE Append(history, Turn("model", text))

\* Lines 82 and 95: the answer, or the apology, appended as the model turn.
with_model_turn(history, text) == Append(history, Turn("model", text))

\* When Ctrl+C (SIGINT) arrives during send_message: not at all; "entry",
\* before line 39 appended the user turn; "blocking", between the two appends,
\* as while messages.create blocks; "returning", after the model turn was
\* appended (line 82 or 95) and before the return.
Signals == {"none", "entry", "blocking", "returning"}

\* The except branches of lines 85-96 catch Exception only: a
\* KeyboardInterrupt leaves send_message where it is raised.
interrupted(signal) == signal # "none"

\* The conversation send_message(text) leaves: the user turn and then the
\* model turn, as far as the call got.
after_send(history, text, provider, signal) ==
  LET sent == with_user_turn(history, text)
  IN  CASE signal = "entry"    -> history
        [] signal = "blocking" -> sent
        [] OTHER               -> with_model_turn(sent, reply(sent, provider))

\* ClaudeChatSessionWrapper.send_message(text)
send_message ==
  /\ Idle
  /\ calls < MaxCalls
  /\ Len(_history) + 2 <= MaxHistoryLen
  /\ \E text \in SentTexts, provider \in Providers, signal \in Signals :
       LET history  == with_user_turn(_history, text)
           response == reply(history, provider)
       IN  /\ _history' = after_send(_history, text, provider, signal)
           /\ calls' = calls + 1
           /\ last' = IF interrupted(signal)
                      THEN Sent(text, provider, signal, _history, TRUE,
                                "KeyboardInterrupt", <<>>)
                      ELSE Sent(text, provider, signal, _history, FALSE,
                                IF answered(history, provider) THEN "None"
                                ELSE "provider_failed",
                                response)
  /\ UNCHANGED <<files, clock, seed, loop>>

\* The caller takes the response.
SendReturn ==
  /\ last # NoCall
  /\ last' = NoCall
  /\ UNCHANGED <<files, clock, _history, seed, calls, loop>>

\* create_chat_session(system_instruction, history) on a history of at most
\* one entry.
ChatInit ==
  /\ files = EmptyDir
  /\ clock = 0
  /\ last = NoCall
  /\ _history \in SeqsUpTo(SeedTurns, 1)
  /\ seed = _history
  /\ calls = 0
  /\ loop = NoLoop

ChatNext == send_message \/ SendReturn

ChatSpec == ChatInit /\ [][ChatNext]_vars

----------------------------------------------------------------------------
(* The interactive loop (src/chat.py, main_loop) on one session: its input *)
(* is sent through send_message and the conversation saved after it        *)

\* What get_user_input returns: nothing, a command, a message.
UserInputs == {<<>>, <<"/", "x">>, HiBang}

\* main_loop's position: "read" at get_user_input (line 39), "command" at
\* handle_command (45), "send" at send_message (54), "tokens" at
\* get_token_info (57), "save" at save_to_file (64), "done" after a break.
\* sent and saved count the send_message and save_to_file calls made for
\* user_input; ended says which break was taken.
At(pc, user_input, sent, saved, ended) ==
  [pc |-> pc, user_input |-> user_input, sent |-> sent, saved |-> saved,
   ended |-> ended]

\* The except branches of lines 68-78, and the break of line 47: the loop is
\* left.
Break(ended) == At("done", loop.user_input, loop.sent, loop.saved, ended)

\* What ends a blocking call by raising: Ctrl+C, Ctrl+D, anything else.
Raises == {"KeyboardInterrupt", "EOFError", "Exception"}

\* The position after get_user_input returned user_input, when an empty input
\* went on to send_message like a message.
after_input_all_sent(user_input) ==
  IF user_input # <<>> /\ user_input[1] = "/" THEN "command" ELSE "send"

\* Lines 41-48: the position after get_user_input returned user_input.
after_input(user_input) ==
  IF user_input = <<>> THEN "read"
  ELSE IF user_input[1] = "/" THEN "command"
  ELSE "send"

\* Line 39: get_user_input() returns an input or raises. An iteration is
\* followed while the clock and the conversation have room for it.
get_user_input ==
  /\ loop.pc = "read"
  /\ clock < MaxClock
  /\ Len(_history) + 2 <= MaxHistoryLen
  /\ \/ \E user_input \in UserInputs :
          loop' = At(after_input(user_input), user_input, 0, 0, "no")
     \/ \E raised \in Raises : loop' = Break(raised)
  /\ UNCHANGED <<files, clock, last, _history, seed, calls>>

\* Lines 45-48: handle_command(user_input) returns should_exit or raises.
handle_command ==
  /\ loop.pc = "command"
  /\ \/ \E should_exit \in BOOLEAN :
          loop' = IF should_exit THEN Break("exit")
                  ELSE At("read", loop.user_input, loop.sent, loop.saved, "no")
     \/ \E raised \in Raises : loop' = Break(raised)
  /\ UNCHANGED <<files, clock, last, _history, seed, calls>>

\* Lines 51-54: session.send_message(user_input). Ctrl+C ends the loop before
\* the call is made, or the call is made and returns with both turns
\* appended, or Ctrl+C ends it where it arrives.
session_send_message ==
  /\ loop.pc = "send"
  /\ \/ /\ loop' = Break("KeyboardInterrupt")
        /\ UNCHANGED <<_history, calls>>
     \/ \E provider \in Providers, signal \in Signals :
          /\ _history' = after_send(_history, loop.user_input, provider, signal)
          /\ loop' = IF interrupted(signal)
                     THEN At("done", loop.user_input, loop.sent + 1,
                             loop.saved, "KeyboardInterrupt")
                     ELSE At("tokens", loop.user_input, loop.sent + 1,
                             loop.saved, "no")
          /\ calls' = calls + 1
  /\ UNCHANGED <<files, clock, last, seed>>

\* Lines 57-61: get_token_info() and the two console lines.
get_token_info ==
  /\ loop.pc = "tokens"
  /\ \/ loop' = At("save", loop.user_input, loop.sent, loop.saved, "no")
     \/ \E raised \in Raises : loop' = Break(raised)
  /\ UNCHANGED <<files, clock, last, _history, seed, calls>>

\* Lines 64-66: session.save_to_file(), save_session_history of the
\* session's conversation; it returns (success, error), and after a failure
\* the error is shown and the loop goes on; or it raises before it wrote; or
\* Ctrl+C ends it before, while or after it wrote.
save_to_file ==
  /\ loop.pc = "save"
  /\ \/ /\ \/ SaveShort(IdA, _history)
           \/ \E existing_file \in find_session_file(files, IdA),
                 io \in {"ok", "open_error", "write_error"} :
                SaveWrite(IdA, _history, existing_file, io)
        /\ loop' = At("read", loop.user_input, loop.sent, loop.saved + 1, "no")
     \/ /\ \E raised \in Raises :
             loop' = At("done", loop.user_input, loop.sent, loop.saved + 1,
                        raised)
        /\ UNCHANGED <<files, clock, last>>
     \/ /\ \E existing_file \in find_session_file(files, IdA),
              at \in {"before_open", "writing", "written"} :
             SaveInterrupted(IdA, _history, existing_file, at)
        /\ loop' = At("done", loop.user_input, loop.sent, loop.saved + 1,
                      "KeyboardInterrupt")
  /\ UNCHANGED <<_history, seed, calls>>

\* main_loop() entered with a new session and an empty LOG_DIR.
LoopInit ==
  /\ files = EmptyDir
  /\ clock = 0
  /\ last = NoCall
  /\ _history = <<>>
  /\ seed = <<>>
  /\ calls = 0
  /\ loop = At("read", <<>>, 0, 0, "no")

LoopNext ==
  \/ get_user_input
  \/ handle_command
  \/ session_send_message
  \/ get_token_info
  \/ save_to_file

LoopSpec == LoopInit /\ [][LoopNext]_vars

----------------------------------------------------------------------------
(* Properties                                                              *)

\* Names of the two encodings, as the specification words them.
IsLegacyName(f) == EndsWith(f, LogJson)

IsCurrentName(f) == EndsWith(f, JsonExt) /\ ~EndsWith(f, LogJson)

\* The short id of the session a legacy file <sessionId>-log.json belongs to.
LegacyShortId(f) == Take(DropLast(f, Len(LogJson)), ShortIdLength)

\* Some current-format file ends in _<shortId>.json for the legacy file f.
Superseded(fs, f) ==
  \E g \in DOMAIN fs :
    IsCurrentName(g) /\ EndsWith(g, <<"_">> \o LegacyShortId(f) \o JsonExt)

\* The (role, text) pairs of stored turns and of universal turns.
StoredPairs(entries) ==
  [i \in 1..Len(entries) |-> <<entries[i].role, entries[i].text>>]

TurnText(turn) == IF turn.parts = <<>> THEN <<>> ELSE turn.parts[1].text

HasText(turn) == TurnText(turn) # <<>>

TurnPairs(history) ==
  [i \in 1..Len(history) |-> <<history[i].role, TurnText(history[i])>>]

IsUserTurn(turn) == turn.role = "user"

\* The text of the first user-role turn, empty when there is none.
FirstUserText(history) ==
  LET users == SelectSeq(history, IsUserTurn)
  IN  IF users = <<>> THEN <<>> ELSE TurnText(users[1])

Abcdef12 == <<"a", "b", "c", "d", "e", "f", "1", "2">>

HelloWorldHistory == <<Turn("user", HelloWorld), Turn("model", HiBang)>>

\* C1: a save of a history with fewer than 2 turns returns (success, no error)
\* and leaves storage as it was: no file is created, modified or removed.
C1_ShortSaveLeavesStorage ==
  [][(last'.op = "save" /\ Len(last'.history) < 2)
       => (last'.ok /\ last'.error = "None" /\ files' = files)]_vars

\* A one-turn history was saved over storage that holds files.
C1_Witness ==
  /\ last.op = "save"
  /\ Len(last.history) = 1
  /\ last.ok
  /\ DOMAIN files # {}

\* C2: every session record in storage, each written by save, holds a stored
\* history of at least 2 turns.
C2_StoredHistoryHasTwoTurns ==
  \A f \in DOMAIN files :
    files[f].kind = "record" => Len(files[f].history) >= 2

\* C3: when storage holds the legacy file of the session and a current-format
\* file ending in _<shortId>.json, find returns the current-format path.
C3_FindReturnsCurrentFormat ==
  (/\ last.op = "find"
   /\ LegacyName(last.session_id) \in DOMAIN files
   /\ \E g \in DOMAIN files :
        /\ IsCurrentName(g)
        /\ EndsWith(g, <<"_">> \o Take(last.session_id, ShortIdLength) \o JsonExt))
    => (/\ IsCurrentName(last.value)
        /\ EndsWith(last.value,
                    <<"_">> \o Take(last.session_id, ShortIdLength) \o JsonExt))

\* C4: list() omits a legacy file exactly when some current-format file ends in
\* _<shortId>.json for its short id, lists it otherwise, and leaves every file,
\* the omitted legacy file included, in storage.
C4_ListHidesSupersededLegacy ==
  [][last'.op = "list"
       => (/\ files' = files
           /\ \A f \in DOMAIN files :
                IsLegacyName(f)
                  => ((\E i \in 1..Len(last'.path) : last'.path[i] = f)
                        <=> ~Superseded(files, f)))]_vars

\* A listing that left out a legacy file which holds a record and is still there.
C4_Witness ==
  /\ last.op = "list"
  /\ \E f \in DOMAIN files :
       /\ IsLegacyName(f)
       /\ files[f].kind = "record"
       /\ \A i \in 1..Len(last.path) : last.path[i] # f

\* C5: when find resolves the session to a file, a save of at least 2 turns
\* writes to that path: the set of file names is unchanged, every other file is
\* unchanged, and a successful save leaves the session's record at that path.
C5_SaveReusesExistingPath ==
  [][(/\ last'.op = "save"
      /\ Len(last'.history) >= 2
      /\ find_session_file(files, last'.session_id) # {NoFile})
       => (/\ last'.path \in find_session_file(files, last'.session_id)
           /\ DOMAIN files' = DOMAIN files
           /\ \A f \in DOMAIN files \ {last'.path} : files'[f] = files[f]
           /\ last'.ok => (/\ files'[last'.path].kind = "record"
                           /\ files'[last'.path].session_id = last'.session_id))]_vars

\* A successful save onto an existing file whose name is not the one the
\* history's first user message would give.
C5_Witness ==
  /\ last.op = "save"
  /\ last.ok
  /\ last.existing # NoFile
  /\ FirstUserText(last.history) # <<>>
  /\ last.path = last.existing
  /\ \/ IsLegacyName(last.path)
     \/ /\ FirstUserText(last.history) = HelloWorld
        /\ last.path = <<"H", "i">> \o <<"_">> \o Abcdef12 \o JsonExt

\* The name the codec gives each message of the model, written out.
ExpectedPromptPart(text) ==
  CASE text = HelloWorld -> <<"H", "e", "l", "l", "o", "_", "w", "o", "r", "l", "d">>
    [] text = HiBang     -> <<"H", "i">>
    [] text = Bang       -> DefaultName
    [] OTHER             -> <<>>

\* C6 as stated: saving [user "Hello world", model "Hi!"] for a session with no
\* file and an id starting with abcdef12 creates hello_world_abcdef12.json.
C6_HelloWorldLowerCase ==
  (/\ last.op = "save"
   /\ last.ok
   /\ last.existing = NoFile
   /\ last.history = HelloWorldHistory
   /\ Take(last.session_id, ShortIdLength) = Abcdef12)
    => (<<"h", "e", "l", "l", "o", "_", "w", "o", "r", "l", "d">>
          \o <<"_">> \o Abcdef12 \o JsonExt) \in DOMAIN files

\* C6 as amended: the case of the message is kept, so the file created for
\* [user "Hello world", model "Hi!"] is Hello_world_abcdef12.json, holding both
\* turns; whenever the first user turn has a text, the new file is named by the
\* sanitized text, or "conversation" when that is empty, then "_", the first 8
\* characters of the session id and ".json", and holds the turns with a text.
C6_FriendlyFileCreated ==
  (/\ last.op = "save"
   /\ last.ok
   /\ Len(last.history) >= 2
   /\ last.existing = NoFile
   /\ FirstUserText(last.history) # <<>>)
    => (/\ last.path = ExpectedPromptPart(FirstUserText(last.history)) \o <<"_">>
                         \o Take(last.session_id, ShortIdLength) \o JsonExt
        /\ last.path \in DOMAIN files
        /\ files[last.path].kind = "record"
        /\ StoredPairs(files[last.path].history)
             = TurnPairs(SelectSeq(last.history, HasText)))

\* The scenario: Hello_world_abcdef12.json was created and holds both turns.
C6_Witness ==
  /\ last.op = "save"
  /\ last.ok
  /\ last.existing = NoFile
  /\ last.history = HelloWorldHistory
  /\ last.session_id = IdA
  /\ last.path = <<"H", "e", "l", "l", "o", "_", "w", "o", "r", "l", "d">>
                   \o <<"_">> \o Abcdef12 \o JsonExt
  /\ Len(files[last.path].history) = 2

\* C7 as stated: converting any (role, text) turns to stored turns and back
\* gives the same sequence of (role, text) pairs.
C7_RoundTripIdentity ==
  last.op = "universal" => TurnPairs(last.value) = TurnPairs(last.history)

\* C7 as amended: the round trip gives the (role, text) pairs of the turns whose
\* text is not empty, in order: the identical sequence when every text is
\* non-empty, and without the empty-text turns otherwise.
C7_RoundTripKeepsTextTurns ==
  last.op = "universal"
    => /\ TurnPairs(last.value) = TurnPairs(SelectSeq(last.history, HasText))
       /\ (\A i \in 1..Len(last.history) : HasText(last.history[i]))
            => last.value = last.history

\* Three turns of three roles, each with a text, came back as they were.
C7_Witness ==
  /\ last.op = "universal"
  /\ Len(last.history) = 3
  /\ \A i \in 1..3 : HasText(last.history[i])
  /\ {last.history[i].role : i \in 1..3} = {"user", "model", "system"}
  /\ last.value = last.history

AsciiNameChars == Digits \cup UpperLetters \cup LowerLetters \cup {"_", "-"}

IsNonAscii(c) == c \in NonAsciiWord

Sanitized == last.op \in {"friendly", "sanitize"}

\* C8 as stated: a sanitized name consists only of characters in
\* [A-Za-z0-9_-]; letters and digits outside ASCII are removed.
C8_OnlyAsciiNameChars ==
  Sanitized => \A i \in 1..Len(last.value) : last.value[i] \in AsciiNameChars

\* C8 as amended: a sanitized name consists only of letters and digits of any
\* script, underscores and hyphens; the letters and digits outside ASCII among
\* the first 50 characters of the input are kept, in order.
C8_OnlyWordCharsAndHyphen ==
  Sanitized
    => /\ \A i \in 1..Len(last.value) :
            last.value[i] \in AsciiNameChars \cup NonAsciiWord
       /\ SelectSeq(last.value, IsNonAscii)
            = SelectSeq(Take(last.new_name, MaxNameLength), IsNonAscii)

\* An input with punctuation and a non-ASCII letter: the first is removed, the
\* second kept.
C8_Witness ==
  /\ last.op = "sanitize"
  /\ \E i \in 1..Len(last.new_name) : last.new_name[i] = "!"
  /\ \E i \in 1..Len(last.value) : last.value[i] = "U0142"

\* C9: a sanitized name never starts or ends with an underscore, never holds
\* two adjacent underscores, and is at most 50 characters long.
C9_UnderscoresAndLength ==
  Sanitized
    => /\ last.value # <<>> => (/\ last.value[1] # "_"
                                /\ last.value[Len(last.value)] # "_")
       /\ \A i \in 1..(Len(last.value) - 1) :
            ~(last.value[i] = "_" /\ last.value[i + 1] = "_")
       /\ Len(last.value) <= 50

\* An input longer than the cap that starts with underscores and still
\* sanitizes to a name.
C9_Witness ==
  /\ last.op = "sanitize"
  /\ Len(last.new_name) > 50
  /\ last.new_name[1] = "_"
  /\ last.new_name[2] = "_"
  /\ last.value # <<>>

\* C10: a rename whose target <sanitizedName>_<shortId>.json is occupied by a
\* file other than the one find resolved fails with the collision error and
\* leaves every file's name and content as it was.
C10_RenameCollisionFails ==
  [][(/\ last'.op = "rename"
      /\ last'.existing # NoFile
      /\ SanitizeNewName(last'.new_name) # <<>>
      /\ LET target == SanitizeNewName(last'.new_name) \o <<"_">>
                         \o Take(last'.session_id, ShortIdLength) \o JsonExt
         IN  target \in DOMAIN files /\ target # last'.existing)
       => (~last'.ok /\ last'.error = "exists" /\ files' = files)]_vars

\* A rename refused for a collision: source and occupying file are both there.
C10_Witness ==
  /\ last.op = "rename"
  /\ last.error = "exists"
  /\ last.existing \in DOMAIN files
  /\ last.path \in DOMAIN files
  /\ last.path # last.existing

\* The files other than g that end in _<shortId>.json for the session.
OtherCandidates(fs, session_id, g) ==
  {f \in DOMAIN fs \ {g} :
     EndsWith(f, <<"_">> \o Take(session_id, ShortIdLength) \o JsonExt)}

\* What a successful rename does to storage and returns: the file find
\* resolved is at <sanitizedName>_<shortId>.json with its content, the old path
\* is gone unless it is the new one, every other file is as it was, the
\* sanitized name is returned and load of the new path gives what load of the
\* old path gave.
RenameMoved ==
  LET old  == last'.existing
      new  == last'.path
      name == SanitizeNewName(last'.new_name)
  IN  /\ old \in find_session_file(files, last'.session_id)
      /\ old # NoFile
      /\ name # <<>>
      /\ last'.value = name
      /\ new = name \o <<"_">> \o Take(last'.session_id, ShortIdLength) \o JsonExt
      /\ DOMAIN files' = (DOMAIN files \ {old}) \cup {new}
      /\ files'[new] = files[old]
      /\ \A f \in DOMAIN files' \ {new} : files'[f] = files[f]
      /\ old # new => old \notin DOMAIN files'
      /\ load_result(files', new) = load_result(files, old)

\* C11 as stated: a successful rename moves the file find resolved to
\* <sanitizedName>_<shortId>.json with its content, returns the sanitized name,
\* the old path is gone unless it is the new path, load gives the same history,
\* and afterwards find(sessionId) resolves to the new path.
C11_FindResolvesNewPath ==
  [][(last'.op = "rename" /\ last'.ok)
       => (/\ RenameMoved
           /\ find_session_file(files', last'.session_id) = {last'.path})]_vars

\* C11 as amended: the same, except that afterwards find(sessionId) resolves to
\* some file ending in _<shortId>.json, the new path among the candidates; it is
\* the new path for certain when no other file ends in _<shortId>.json.
C11_RenameMovesFile ==
  [][(last'.op = "rename" /\ last'.ok)
       => (/\ RenameMoved
           /\ last'.path \in find_session_file(files', last'.session_id)
           /\ \A f \in find_session_file(files', last'.session_id) :
                EndsWith(f, <<"_">> \o Take(last'.session_id, ShortIdLength)
                                \o JsonExt)
           /\ OtherCandidates(files', last'.session_id, last'.path) = {}
                => find_session_file(files', last'.session_id) = {last'.path})]_vars

\* A legacy file holding a record was renamed: it is at the new path, the old
\* path is gone, and another session's file is beside it.
C11_Witness ==
  /\ last.op = "rename"
  /\ last.ok
  /\ IsLegacyName(last.existing)
  /\ last.existing \notin DOMAIN files
  /\ last.path \in DOMAIN files
  /\ files[last.path].kind = "record"
  /\ Cardinality(DOMAIN files) = 2

\* A name with a character that is no white space.
NonBlank(name) == \E i \in 1..Len(name) : ~IsSpace(name[i])

\* No letter, digit or hyphen among the first 50 characters: what is left after
\* sanitizing is empty.
Nameless(name) ==
  \A i \in 1..Min(Len(name), 50) :
    \/ name[i] = "_"
    \/ ~IsWord(name[i]) /\ name[i] # "-"

\* C12 as stated: a rename to a name that is not blank but sanitizes to the
\* empty string fails with the validation error, never substitutes
\* "conversation", and leaves storage unchanged.
C12_NamelessRenameIsValidationError ==
  [][(last'.op = "rename" /\ NonBlank(last'.new_name) /\ Nameless(last'.new_name))
       => (/\ ~last'.ok
           /\ last'.error = "empty_name"
           /\ last'.value # DefaultName
           /\ files' = files)]_vars

\* C12 as amended: such a rename fails, never substitutes "conversation" and
\* leaves storage unchanged; the error is the validation error when find
\* resolves a file for the session, and the not-found error when it resolves
\* none, since the file is resolved before the name is sanitized.
C12_NamelessRenameFails ==
  [][(last'.op = "rename" /\ NonBlank(last'.new_name) /\ Nameless(last'.new_name))
       => (/\ ~last'.ok
           /\ last'.existing \in find_session_file(files, last'.session_id)
           /\ last'.error = IF last'.existing = NoFile THEN "not_found"
                             ELSE "empty_name"
           /\ last'.value = <<>>
           /\ \A f \in DOMAIN files' :
                ~StartsWith(f, DefaultName) \/ f \in DOMAIN files
           /\ files' = files)]_vars

\* A rename of an existing file to "!!" was refused for the empty name.
C12_Witness ==
  /\ last.op = "rename"
  /\ last.new_name = <<"!", "!">>
  /\ last.existing \in DOMAIN files
  /\ last.error = "empty_name"
  /\ ~last.ok

\* C13: when the provider call fails, send_message raises nothing to the
\* caller, returns the non-empty apology, and the history grows by exactly 2
\* turns: the user turn, then a model turn holding the apology.
C13_ProviderFailureGivesApology ==
  [][(last'.op = "send" /\ last'.provider.kind = "raises")
       => (/\ ~last'.raised
           /\ last'.value # <<>>
           /\ Len(_history') = Len(_history) + 2
           /\ _history' = _history \o <<Turn("user", last'.text),
                                         Turn("model", last'.value)>>)]_vars

\* C13 (amended): when the provider call fails and no Ctrl+C arrives during
\* the call, send_message raises nothing to the caller, returns the non-empty
\* apology, and the history grows by exactly 2 turns: the user turn, then a
\* model turn holding the apology. Ctrl+C during the call reaches the caller
\* as KeyboardInterrupt, also after the apology was appended.
C13_ProviderFailureGivesApologyUnlessInterrupted ==
  [][(last'.op = "send" /\ last'.provider.kind = "raises")
       => IF last'.signal = "none"
          THEN /\ ~last'.raised
               /\ last'.value # <<>>
               /\ Len(_history') = Len(_history) + 2
               /\ _history' = _history \o <<Turn("user", last'.text),
                                             Turn("model", last'.value)>>
          ELSE /\ last'.raised
               /\ last'.signal = "returning"
                    => _history' = _history \o <<Turn("user", last'.text),
                                                 Turn("model", err_text)>>]_vars

\* The provider raised on the second message of a conversation: the four
\* turns end with the apology.
C13_Witness ==
  /\ last.op = "send"
  /\ last.provider.kind = "raises"
  /\ last.signal = "none"
  /\ ~last.raised
  /\ Len(last.before) = 2
  /\ Len(_history) = 4
  /\ _history[4] = Turn("model", err_text)
  /\ Len(last.value) > 60

\* The exceptions of a load that reach its caller.
Raised == {"AttributeError", "KeyError"}

\* C14: load never throws and never modifies storage: it returns the empty
\* history with the not-found signal when no file resolves, and the empty
\* history with the decode-failure signal when the resolved file is no valid
\* JSON or is JSON that is no record with well-formed turns.
C14_LoadNeverThrows ==
  [][last'.op = "load"
       => (/\ files' = files
           /\ last'.error \notin Raised
           /\ last'.existing = NoFile
                => (last'.value = <<>> /\ last'.error = "not_found")
           /\ (last'.existing # NoFile /\ files[last'.existing].kind # "record")
                => (last'.value = <<>> /\ last'.error = "decode_error"))]_vars

\* The files that survive list's classification and supersession: the legacy
\* files no current-format file supersedes, and the current-format files
\* whose base name holds an underscore.
Surviving(fs) ==
  {f \in DOMAIN fs :
     \/ IsLegacyName(f) /\ f # AzorWal /\ ~Superseded(fs, f)
     \/ /\ IsCurrentName(f) /\ f # AzorWal
        /\ \E i \in 1..(Len(f) - Len(JsonExt)) : f[i] = "_"}

\* A file list cannot parse: no JSON, or JSON that is no object.
Unparsable(content) == content.kind \in {"truncated", "not_object"}

\* C15: list returns exactly one entry per file that survives classification
\* and supersession, whatever the files hold: a file that cannot be parsed
\* gives an entry carrying an error, the listing is not aborted, and every
\* other file keeps its entry.
C15_OneEntryPerSurvivingFile ==
  [][last'.op = "list"
       => (/\ last'.ok
           /\ Len(last'.value) = Cardinality(Surviving(files))
           /\ Len(last'.path) = Len(last'.value)
           /\ \A f \in Surviving(files) :
                \E i \in 1..Len(last'.path) :
                  /\ last'.path[i] = f
                  /\ \A j \in 1..Len(last'.path) : last'.path[j] = f => j = i
                  /\ Unparsable(files[f]) => last'.value[i].error # "None"
                  /\ (files[f].kind = "record" /\ files[f].history # <<>>)
                       => (/\ last'.value[i].error = "None"
                           /\ last'.value[i].id = files[f].session_id
                           /\ last'.value[i].messages_count
                                = Len(files[f].history)))]_vars

\* A listing of two files: the first cannot be parsed and has an entry with
\* the error, the second has its entry with its message count.
C15_Witness ==
  /\ last.op = "list"
  /\ Len(last.value) = 2
  /\ Unparsable(files[last.path[1]])
  /\ last.value[1].error = "read_error"
  /\ last.value[2].error = "None"
  /\ last.value[2].messages_count = 2

\* C16: displayName returns everything before the final _<shortId> of the file
\* name when find resolves to a current-format file, friendly names with
\* underscores included, and the first 8 characters of the session id when find
\* resolves to a legacy file or to nothing; a directory holding only one legacy
\* file is listed as one entry whose display name is that short id.
C16_DisplayName ==
  /\ last.op = "display"
       => LET short == Take(last.session_id, ShortIdLength)
          IN  /\ last.existing \in find_session_file(files, last.session_id)
              /\ IsCurrentName(last.existing)
                   => last.value \o <<"_">> \o short \o JsonExt = last.existing
              /\ (last.existing = NoFile \/ IsLegacyName(last.existing))
                   => last.value = short
  /\ (/\ last.op = "list"
      /\ Cardinality(DOMAIN files) = 1
      /\ \A f \in DOMAIN files : IsLegacyName(f))
       => (/\ Len(last.value) = 1
           /\ \A f \in DOMAIN files : last.value[1].display_name = LegacyShortId(f))

\* The display name Hello_world was given for Hello_world_abcdef12.json.
C16_Witness ==
  /\ last.op = "display"
  /\ last.existing = <<"H", "e", "l", "l", "o", "_", "w", "o", "r", "l", "d">>
                       \o <<"_">> \o Abcdef12 \o JsonExt
  /\ last.value = <<"H", "e", "l", "l", "o", "_", "w", "o", "r", "l", "d">>

\* A directory holding only xyz123ab-3-log.json, a record of two turns, was
\* listed as one entry named xyz123ab.
C16_LegacyListed ==
  /\ last.op = "list"
  /\ DOMAIN files = {IdC \o LogJson}
  /\ files[IdC \o LogJson].kind = "record"
  /\ Len(files[IdC \o LogJson].history) = 2
  /\ Len(last.value) = 1
  /\ last.value[1].display_name = <<"x", "y", "z", "1", "2", "3", "a", "b">>

\* C17 as stated: remove fails with the not-found signal and leaves storage
\* unchanged when find resolves to nothing; otherwise it deletes exactly the
\* one file find resolved and leaves every other file unchanged.
C17_RemoveDeletesResolvedFile ==
  [][last'.op = "remove"
       => (/\ last'.existing \in find_session_file(files, last'.session_id)
           /\ last'.existing = NoFile
                => (~last'.ok /\ last'.error = "not_found" /\ files' = files)
           /\ last'.existing # NoFile
                => (/\ DOMAIN files' = DOMAIN files \ {last'.existing}
                    /\ \A f \in DOMAIN files' : files'[f] = files[f]))]_vars

\* C17 as amended: when find resolves a file, remove either succeeds, and then
\* exactly that file is deleted and every other file is unchanged, or the file
\* system refuses the removal, and then the failure is returned and storage is
\* unchanged.
C17_RemoveDeletesOrReports ==
  [][last'.op = "remove"
       => (/\ last'.existing \in find_session_file(files, last'.session_id)
           /\ last'.existing = NoFile
                => (~last'.ok /\ last'.error = "not_found" /\ files' = files)
           /\ (last'.existing # NoFile /\ last'.ok)
                => (/\ last'.error = "None"
                    /\ DOMAIN files' = DOMAIN files \ {last'.existing}
                    /\ \A f \in DOMAIN files' : files'[f] = files[f])
           /\ (last'.existing # NoFile /\ ~last'.ok)
                => (last'.error = "remove_failed" /\ files' = files))]_vars

\* A file was removed and the file of another session is still there.
C17_Witness ==
  /\ last.op = "remove"
  /\ last.ok
  /\ last.existing # NoFile
  /\ last.existing \notin DOMAIN files
  /\ \E f \in DOMAIN files : files[f].kind = "record"

\* C18: a save that fails while writing returns (false, error) and leaves no
\* partial file: a record saved before keeps its complete content and no
\* truncated or half-written file is at the target path.
C18_FailedSaveLeavesNoPartialFile ==
  [][(last'.op = "save" /\ ~last'.ok)
       => (/\ last'.error # "None"
           /\ files' = files
           /\ last'.path \in DOMAIN files'
                => files'[last'.path].kind # "truncated")]_vars

\* Some user-role turn of the history has a non-empty text.
AnyUserText(history) ==
  \E i \in 1..Len(history) : IsUserTurn(history[i]) /\ HasText(history[i])

\* A save of at least 2 turns for a session no file resolves to.
SavedAnew ==
  /\ last.op = "save"
  /\ Len(last.history) >= 2
  /\ last.existing = NoFile

\* C19 as stated: with no file for the session, a save of at least 2 turns
\* creates the legacy-named file exactly when no user-role turn has a
\* non-empty text, and a current-format file when any user-role turn has one,
\* even after an earlier empty user turn.
C19_LegacyIffNoUserText ==
  SavedAnew
    => /\ IsLegacyName(last.path) <=> ~AnyUserText(last.history)
       /\ AnyUserText(last.history) => IsCurrentName(last.path)

\* C19 as amended: the file is named after the first user-role turn alone: the
\* legacy name <sessionId>-log.json exactly when the history has no user-role
\* turn or its first user-role turn has no text, also when a later user turn
\* has a text; a current-format name when the first user-role turn has a text.
\* The file is there once the save has opened it.
C19_LegacyIffFirstUserTurnEmpty ==
  SavedAnew
    => /\ IsLegacyName(last.path) <=> FirstUserText(last.history) = <<>>
       /\ IsLegacyName(last.path) => last.path = last.session_id \o LogJson
       /\ FirstUserText(last.history) # <<>>
            => (/\ IsCurrentName(last.path)
                /\ EndsWith(last.path, <<"_">> \o Take(last.session_id, ShortIdLength)
                                         \o JsonExt))
       /\ last.ok => last.path \in DOMAIN files

\* A history whose first user turn is empty and whose second says "Hi!" was
\* saved under the legacy name.
C19_Witness ==
  /\ SavedAnew
  /\ last.ok
  /\ last.history = <<Turn("user", <<>>), Turn("user", HiBang)>>
  /\ last.path = last.session_id \o LogJson
  /\ last.path \in DOMAIN files

\* C20: a rename with an empty or white-space-only new name fails with the
\* empty-name validation error before the session file is resolved: the same
\* validation error whether or not a file exists for the session, and storage
\* is unchanged.
C20_BlankNameFailsFast ==
  [][(last'.op = "rename" /\ StripSpace(last'.new_name) = <<>>)
       => (/\ ~last'.ok
           /\ last'.error = "empty_name"
           /\ files' = files)]_vars

\* What does hold of a blank new name: the rename command refuses it with its
\* own empty-name error before it reads storage, and rename_session_file
\* fails with the not-found error when no file resolves and with the
\* validation error when one does; storage is unchanged in each case.
BlankNameRefused ==
  [][(last'.op \in {"rename", "rename_command"}
        /\ StripSpace(last'.new_name) = <<>>)
       => (/\ ~last'.ok
           /\ files' = files
           /\ last'.op = "rename_command"
                => (last'.error = "blank_name" /\ last'.existing = NoFile)
           /\ last'.op = "rename"
                => last'.error = IF last'.existing = NoFile THEN "not_found"
                                  ELSE "empty_name")]_vars

\* C21: every send_message, whether the provider answers, returns no content
\* or fails, appends exactly two turns: the user turn with the sent text, then
\* one model turn whose text is the text returned; after n calls on a session
\* seeded with h0 the history has |h0| + 2n turns and starts with h0, no earlier
\* turn being changed or removed.
C21_TwoTurnsPerCall ==
  /\ [](/\ Len(_history) = Len(seed) + 2 * calls
        /\ Take(_history, Len(seed)) = seed)
  /\ [][last'.op = "send"
          => (/\ calls' = calls + 1
              /\ Len(_history') = Len(_history) + 2
              /\ Take(_history', Len(_history)) = _history
              /\ _history'[Len(_history) + 1] = Turn("user", last'.text)
              /\ _history'[Len(_history) + 2] = Turn("model", last'.value))]_vars

\* C21 (amended): every send_message that returns, whether the provider
\* answers, returns no content or fails, appends exactly two turns: the user
\* turn with the sent text, then one model turn whose text is the text
\* returned. A send_message that Ctrl+C ends returns nothing and has appended
\* what it got to: nothing, the user turn, or the user turn and the model
\* turn. After n calls on a session seeded with h0 the history has between
\* |h0| and |h0| + 2n turns and starts with h0, no earlier turn being changed
\* or removed.
C21_TwoTurnsPerReturnedCall ==
  /\ [](/\ Len(_history) >= Len(seed)
        /\ Len(_history) <= Len(seed) + 2 * calls
        /\ Take(_history, Len(seed)) = seed)
  /\ [][last'.op = "send"
          => (/\ calls' = calls + 1
              /\ Take(_history', Len(_history)) = _history
              /\ IF ~last'.raised
                 THEN _history' = _history \o <<Turn("user", last'.text),
                                               Turn("model", last'.value)>>
                 ELSE /\ last'.value = <<>>
                      /\ \/ _history' = _history
                         \/ _history' = _history \o <<Turn("user", last'.text)>>
                         \/ /\ Len(_history') = Len(_history) + 2
                            /\ _history'[Len(_history) + 1]
                                 = Turn("user", last'.text)
                            /\ _history'[Len(_history) + 2].role
                                 = "model")]_vars

\* The second call on a session seeded with one turn got a response without
\* content after a first call that Ctrl+C ended while the provider call was
\* blocking: four turns, two user turns in a row, then the apology.
C21_Witness ==
  /\ last.op = "send"
  /\ ~last.raised
  /\ last.signal = "none"
  /\ last.provider.kind = "response"
  /\ last.provider.content = <<>>
  /\ calls = 2
  /\ Len(seed) = 1
  /\ Len(_history) = 4
  /\ _history[2].role = "user"
  /\ _history[3] = Turn("user", last.text)
  /\ _history[4] = Turn("model", err_text)

\* C22: a save that writes a record stamps every stored turn with a time taken
\* during that save: no turn of the record carries the timestamp of an earlier
\* save, and no timestamp precedes the start of the save that wrote the record.
C22_StampsAreOfThisSave ==
  [][(last'.op = "save" /\ last'.ok /\ Len(last'.history) >= 2)
       => (/\ files'[last'.path].kind = "record"
           /\ clock' > clock
           /\ \A i \in 1..Len(files'[last'.path].history) :
                /\ files'[last'.path].history[i].timestamp > clock
                /\ files'[last'.path].history[i].timestamp <= clock'
           /\ \A f \in DOMAIN files :
                files[f].kind = "record"
                  => \A j \in 1..Len(files[f].history) :
                       \A i \in 1..Len(files'[last'.path].history) :
                         files'[last'.path].history[i].timestamp
                           > files[f].history[j].timestamp)]_vars

\* A record of two turns saved at time 1 was saved again: both turns carry
\* the time 2.
C22_Witness ==
  /\ last.op = "save"
  /\ last.ok
  /\ last.existing # NoFile
  /\ clock = 2
  /\ Len(files[last.path].history) = 2
  /\ \A i \in 1..2 : files[last.path].history[i].timestamp = 2

\* An input that is a message: not empty and not a command.
Plain(user_input) == user_input # <<>> /\ user_input[1] # "/"

\* C23: in the interactive loop every non-empty input that does not start
\* with "/" is sent to the session exactly once and followed by exactly one
\* save attempt before the next input is read; empty inputs and commands are
\* never sent and trigger no save; a failed save does not end the loop, while
\* an interrupt, end of input or unexpected error ends it.
C23_OneSendOneSavePerInput ==
  /\ [](/\ loop.sent <= 1 /\ loop.saved <= loop.sent
        /\ ~Plain(loop.user_input) => (loop.sent = 0 /\ loop.saved = 0)
        /\ (loop.pc = "read" /\ Plain(loop.user_input))
             => (loop.sent = 1 /\ loop.saved = 1)
        /\ loop.pc = "done" <=> loop.ended # "no")
  /\ [][/\ loop'.sent = loop.sent + 1
             => (/\ Plain(loop.user_input)
                 /\ calls' = calls + 1
                 /\ Take(_history', Len(_history)) = _history
                 /\ loop'.ended = "no"
                      => _history' = _history \o
                           <<Turn("user", loop.user_input), _history'[Len(_history')]>>)
        /\ loop'.sent = loop.sent => (_history' = _history /\ calls' = calls)
        /\ (loop'.saved = loop.saved + 1 /\ loop'.ended \notin Raises)
             => (/\ loop'.pc = "read"
                 /\ last'.op = "save"
                 /\ last'.history = _history)
        /\ loop'.ended \in Raises => loop'.pc = "done"
        /\ (loop'.pc = "done" /\ loop.pc # "done")
             => loop'.ended \in Raises \cup {"exit"}]_vars

\* The loop is about to read the next input: the message before was sent
\* once and its one save failed.
C23_Witness ==
  /\ loop.pc = "read"
  /\ loop.user_input = HiBang
  /\ loop.sent = 1
  /\ loop.saved = 1
  /\ last.op = "save"
  /\ ~last.ok
  /\ Len(_history) = 2

\* The files of LOG_DIR that carry a session's name: its legacy file and the
\* current-format files ending in its short id.
FilesOf(fs, session_id) ==
  {f \in DOMAIN fs :
     \/ f = LegacyName(session_id)
     \/ EndsWith(f, ShortIdSuffix(ShortId(session_id)))}

\* C24: starting from empty storage and for sessions whose short ids are
\* pairwise distinct, after any sequence of save, rename and remove calls
\* storage holds at most one file per session: never a legacy and a
\* current-format file together, never two current-format files.
C24_OneFilePerSession ==
  \A session_id \in DistinctIds : Cardinality(FilesOf(files, session_id)) <= 1

\* A legacy file was renamed, which moved it to a current-format name, while
\* the other session keeps its own file.
C24_Witness ==
  /\ last.op = "rename"
  /\ last.ok
  /\ last.session_id = IdA
  /\ last.existing = LegacyName(IdA)
  /\ FilesOf(files, IdA) = {last.path}
  /\ IsCurrentName(last.path)
  /\ Cardinality(FilesOf(files, IdC)) = 1

\* The files whose stored session_id is the given one.
StoredFor(fs, session_id) ==
  {f \in DOMAIN fs : fs[f].kind = "record" /\ fs[f].session_id = session_id}

\* The step is a save, rename or remove issued for a session.
Mutation == last'.op \in {"save", "rename", "remove"}

\* The file is in storage after the step under the same name and with the
\* same content.
Untouched(f) == f \in DOMAIN files' /\ files'[f] = files[f]

\* C25: for any two sessions with different ids, including ids that share
\* their first 8 characters, a save, rename or remove issued for one of them
\* never overwrites, renames or deletes a file whose stored session_id is
\* the other's.
C25_NeverTouchesOtherSession ==
  [][Mutation
       => \A other \in SessionIds \ {last'.session_id} :
            \A f \in StoredFor(files, other) : Untouched(f)]_vars

\* C25 (amended): a save, rename or remove issued for one session never
\* overwrites, renames or deletes a file whose stored session_id is that of
\* a session with a different short id; a file of a session sharing the
\* first 8 characters can be taken by the scan and is not protected.
C25_NeverTouchesOtherShortId ==
  [][Mutation
       => \A other \in SessionIds :
            ShortId(other) # ShortId(last'.session_id)
              => \A f \in StoredFor(files, other) : Untouched(f)]_vars

\* A rename for one session moved its own file while the file of a session
\* with another short id is in storage.
C25_Witness ==
  /\ last.op = "rename"
  /\ last.ok
  /\ last.session_id = IdA
  /\ last.existing \notin DOMAIN files
  /\ last.path \in StoredFor(files, IdA)
  /\ StoredFor(files, IdC) # {}

\* The files a successful save has written that no current-format file
\* supersedes.
SavedFiles(fs) ==
  {f \in DOMAIN fs :
     fs[f].kind = "record" /\ ~(IsLegacyName(f) /\ Superseded(fs, f))}

\* C26: every file that a successful save has written and that is not
\* superseded appears in list() as an entry without an error, whose id is the
\* saved session id and whose message count is the number of turns stored in
\* the file, including when every turn of the saved history had empty text.
C26_SavedFileIsListed ==
  last.op = "list"
    => \A f \in SavedFiles(files) :
         \E i \in 1..Len(last.path) :
           /\ last.path[i] = f
           /\ last.value[i].error = "None"
           /\ last.value[i].id = files[f].session_id
           /\ last.value[i].messages_count = Len(files[f].history)

\* find and displayName of the id of the i-th entry of the listing give the
\* file the entry was built from and the entry's display name.
Resolves(i) ==
  \A found \in find_session_file(files, last.value[i].id) :
    /\ found = last.path[i]
    /\ display_name(found, last.value[i].id) = last.value[i].display_name

\* C27: for every error-free entry of list(), find(entry.id) returns the path
\* of the file the entry was built from and displayName(entry.id) equals the
\* entry's display name, also when a legacy and a current-format file with
\* the same short id coexist.
C27_ListedIdResolves ==
  last.op = "list"
    => \A i \in 1..Len(last.value) :
         last.value[i].error = "None" => Resolves(i)

\* C27 (amended): an error-free entry of list() resolves to its file and its
\* display name when the file stores the session_id and is the only file
\* that carries the session's name; the legacy file of another session with
\* the same short id may coexist.
C27_ListedIdResolvesWhenAlone ==
  last.op = "list"
    => \A i \in 1..Len(last.value) :
         (/\ last.value[i].error = "None"
          /\ files[last.path[i]].kind = "record"
          /\ FilesOf(files, last.value[i].id) = {last.path[i]})
           => Resolves(i)

\* A listing of a current-format file while the legacy file of the other
\* session with the same short id is hidden.
C27_Witness ==
  /\ last.op = "list"
  /\ Len(last.value) = 1
  /\ last.value[1].error = "None"
  /\ last.value[1].id = IdA
  /\ IsCurrentName(last.path[1])
  /\ LegacyName(IdB) \in DOMAIN files
  /\ Resolves(1)

\* find resolves the session to nothing and load returns the empty history
\* with the not-found signal.
Gone(fs, session_id) ==
  \A found \in find_session_file(fs, session_id) :
    /\ found = NoFile
    /\ load_result(fs, found) =
         [ok |-> FALSE, error |-> "not_found", value |-> NoHistory]

\* C28: after a successful remove(sessionId), find(sessionId) resolves to
\* nothing and load(sessionId) returns the empty history with the not-found
\* signal, for every storage state in which the remove succeeded.
C28_RemovedIsGone ==
  [][(last'.op = "remove" /\ last'.ok)
       => Gone(files', last'.session_id)]_vars

\* C28 (amended): after a successful remove(sessionId) of the only file that
\* carried the session's name, find(sessionId) resolves to nothing and
\* load(sessionId) returns the empty history with the not-found signal; when
\* another file ending in the session's short id remains, find and load
\* resolve to that file.
C28_RemovedIsGoneWhenAlone ==
  [][(/\ last'.op = "remove"
      /\ last'.ok
      /\ FilesOf(files, last'.session_id) = {last'.path})
       => Gone(files', last'.session_id)]_vars

\* A session's only file was removed while another session's file stays.
C28_Witness ==
  /\ last.op = "remove"
  /\ last.ok
  /\ last.session_id = IdA
  /\ last.path \notin DOMAIN files
  /\ FilesOf(files, IdA) = {}
  /\ Gone(files, IdA)
  /\ StoredFor(files, IdC) # {}

\* C29: find, load, list and displayName are read-only: calling any of them
\* leaves the set of file names and every file's content unchanged,
\* including when a file is malformed or a legacy file is superseded.
C29_ReadsLeaveStorage ==
  [][last'.op \in {"find", "load", "display", "list"}
       => (/\ DOMAIN files' = DOMAIN files
           /\ \A f \in DOMAIN files : files'[f] = files[f])]_vars

\* A listing went through a file it could not read while a superseded legacy
\* file was in storage.
C29_Witness ==
  /\ last.op = "list"
  /\ \E i \in 1..Len(last.value) : last.value[i].error = "read_error"
  /\ \E f \in DOMAIN files : IsLegacyName(f) /\ Superseded(files, f)
  /\ \E f \in DOMAIN files : files[f].kind \in {"truncated", "not_object"}

====
